---- MODULE Spec2Model ----
(***************************************************************************)
(* Model of SalesDepartment (JarvisAlive/departments/sales/                *)
(* sales_department.py): the entity store (leads_database,                 *)
(* prospects_pipeline, meetings_scheduled), the DepartmentMetrics record   *)
(* and the workflows dispatched by execute_workflow.                       *)
(*                                                                         *)
(* Numbers: lead scores are the floats 5.0, 7.0, 8.0, 10.0 of the source   *)
(* and are kept as the integers 5, 7, 8, 10.  Execution times are whole    *)
(* seconds.  Averages and rates are exact rationals <<num, den>> in lowest *)
(* terms (floating-point rounding is not modelled).                        *)
(***************************************************************************)
EXTENDS Integers, Sequences, FiniteSets, TLC

\* ------------------------------------------------------------------ bounds
\* Number of top-level calls (execute_workflow, update_metrics) in a run.
MaxCalls == 2
\* Largest max_leads a caller passes in the criteria of the fallback generator.
MaxLeads == 2
\* Largest number of leads the lead scanner returns from one scan.
MaxScan == 2
\* Largest value of the clock (whole seconds).
MaxClock == 1
\* Largest number of calls in a behaviour of the lifecycle specification.
MaxSteps == 4
\* Largest number of calls in a behaviour that books meetings again.
MaxRounds == 5
\* Depth at which the interpreter refuses another nested
\* execute_workflow_safe -> execute_workflow call (RecursionError).
RecursionLimit == 4

\* Execution times (seconds) a workflow can measure.
Durations == {1, 3}

\* ------------------------------------------------------------- arithmetic
RECURSIVE Gcd(_, _)
Gcd(a, b) == IF b = 0 THEN a ELSE Gcd(b, a % b)

\* The rational n/d (d > 0, n >= 0) in lowest terms.
Rat(n, d) == LET g == Gcd(n, d) IN <<n \div g, d \div g>>

Zero == Rat(0, 1)

Min(a, b) == IF a <= b THEN a ELSE b

\* ------------------------------------------------------------------ state
VARIABLES
    lead_scanner,        \* TRUE iff the real agents were imported (self.lead_scanner
                         \* and self.outreach_composer are set together)
    leads_database,      \* lead id -> Lead
    prospects_pipeline,  \* lead id -> Prospect
    meetings_scheduled,  \* sequence of meetings
    metrics,             \* DepartmentMetrics
    now,                 \* the clock, in whole seconds
    call,                \* the last top-level call: what was asked, what came back
    hist,                \* history of the run (calls made, durations recorded)
    tasks                \* the execute_workflow coroutines running concurrently:
                         \* for each its request, the stage it runs next and
                         \* the envelope it has built so far

vars == <<lead_scanner, leads_database, prospects_pipeline, meetings_scheduled,
          metrics, now, call, hist, tasks>>

\* The mutable part of a SalesDepartment object, as one value.
Self == [leads_database |-> leads_database,
         prospects_pipeline |-> prospects_pipeline,
         meetings_scheduled |-> meetings_scheduled,
         metrics |-> metrics]

DepartmentMetrics ==
    [leads_generated |-> 0, leads_qualified |-> 0, messages_composed |-> 0,
     emails_sent |-> 0, responses_received |-> 0, meetings_booked |-> 0,
     total_workflows_executed |-> 0, average_execution_time |-> Zero,
     last_execution |-> -1, success_rate |-> Zero,
     personalization_score |-> Zero, response_rate |-> Zero]

\* ---------------------------------------------------------------- scoring
title_keywords == <<"ceo", "cto", "vp", "director", "manager", "head">>
company_size_bonus == << <<"startup", 5>>, <<"enterprise", 10>>, <<"mid-market", 8>> >>
industry_match == <<"saas", "technology", "software", "fintech">>

\* The keywords and tokens of the scoring criteria that occur as substrings of
\* the lower-cased attribute string s; the attribute strings of the model are
\* those of the criteria below.
Lower(s) ==
    CASE s = "CEO" -> {"ceo"}
      [] s = "CTO" -> {"cto"}
      [] s = "VP" -> {"vp"}
      [] s = "VP Engineering" -> {"vp"}
      [] s = "Engineer" -> {}
      [] s = "Technology" -> {"technology"}
      [] s = "SaaS" -> {"saas"}
      [] s = "Retail" -> {}
      [] s = "11-50" -> {}
      [] s = "51-200" -> {}
      [] s = "Enterprise" -> {"enterprise"}
      [] s = "Director" -> {"director"}
      [] s = "Startup" -> {"startup"}
      [] s = "Mid-Market Enterprise" -> {"enterprise", "mid-market"}
      [] s = "Fintech Software" -> {"software", "fintech"}
      [] OTHER -> {}

\* for x in seq: if x in s: ...; break  -- the index of the first match, 0 if none
RECURSIVE FirstMatch(_, _, _)
FirstMatch(seq, found, i) ==
    IF i > Len(seq) THEN 0
    ELSE IF seq[i] \in found THEN i
    ELSE FirstMatch(seq, found, i + 1)

\* _calculate_lead_score as it would be without the cap min(score, 10.0).
_calculate_lead_score_uncapped(lead_data) ==
    LET t == FirstMatch(title_keywords, Lower(lead_data.title), 1)
        sizes == [k \in 1..Len(company_size_bonus) |-> company_size_bonus[k][1]]
        c == FirstMatch(sizes, Lower(lead_data.company_size), 1)
        n == FirstMatch(industry_match, Lower(lead_data.industry), 1)
    IN  5 + (IF t > 0 THEN 2 ELSE 0)
          + (IF c > 0 THEN company_size_bonus[c][2] ELSE 0)
          + (IF n > 0 THEN 3 ELSE 0)

_calculate_lead_score(lead_data) ==
    LET t == FirstMatch(title_keywords, Lower(lead_data.title), 1)
        sizes == [k \in 1..Len(company_size_bonus) |-> company_size_bonus[k][1]]
        c == FirstMatch(sizes, Lower(lead_data.company_size), 1)
        n == FirstMatch(industry_match, Lower(lead_data.industry), 1)
        score == 5 + (IF t > 0 THEN 2 ELSE 0)
                   + (IF c > 0 THEN company_size_bonus[c][2] ELSE 0)
                   + (IF n > 0 THEN 3 ELSE 0)
    IN  Min(score, 10)

\* ------------------------------------------------------------------ leads
Lead(id, title, score) ==
    [id |-> id, title |-> title, score |-> score, status |-> "new",
     contact_attempts |-> 0, last_contacted |-> -1, notes |-> 0]

\* criteria.get(key, default) of find_new_leads
CriteriaGet(criteria, key, default) ==
    IF key \in DOMAIN criteria THEN criteria[key] ELSE default

\* The i-th lead (i from 0) find_new_leads makes at clock time t.
NewLead(criteria, t, i) ==
    LET titles == CriteriaGet(criteria, "titles", <<"CEO", "CTO", "VP">>)
        industries == CriteriaGet(criteria, "industries", <<"Technology", "SaaS">>)
        company_sizes == CriteriaGet(criteria, "company_sizes", <<"11-50", "51-200">>)
        title == titles[(i % Len(titles)) + 1]
    IN  Lead(<<t, i>>, title,
             _calculate_lead_score(
                 [title |-> title,
                  industry |-> industries[(i % Len(industries)) + 1],
                  company_size |-> company_sizes[(i % Len(company_sizes)) + 1]]))

\* self.leads_database[lead_id] = lead, for each lead of the sequence in turn
\* (a later lead with the same id replaces an earlier one).
RECURSIVE StoreLeads(_, _, _)
StoreLeads(db, new_leads, i) ==
    IF i > Len(new_leads) THEN db
    ELSE LET l == new_leads[i]
         IN  StoreLeads([k \in DOMAIN db \cup {l.id} |-> IF k = l.id THEN l ELSE db[k]],
                        new_leads, i + 1)

\* find_new_leads: max_leads leads, each stored under lead_<timestamp>_<i>;
\* when save_state raises, the leads stay stored and [] is returned.
find_new_leads(self, criteria, t, save_fails) ==
    LET n == CriteriaGet(criteria, "max_leads", 10)
        new_leads == [k \in 1..n |-> NewLead(criteria, t, k - 1)]
        stored == [self EXCEPT !.leads_database = StoreLeads(@, new_leads, 1)]
    IN  [self |-> stored,
         new_leads |-> IF save_fails THEN << >> ELSE new_leads]

\* The envelope _execute_lead_generation_mock builds from what find_new_leads
\* returned.
MockEnvelope(found) ==
    [self |-> found.self,
     result |-> [success |-> TRUE,
                 workflow_type |-> "lead_generation",
                 leads_found |-> Len(found.new_leads),
                 leads |-> [k \in 1..Len(found.new_leads) |->
                               [id |-> found.new_leads[k].id,
                                score |-> found.new_leads[k].score]],
                 note |-> "Using mock implementation"]]

_execute_lead_generation_mock(self, config, t, save_fails) ==
    MockEnvelope(
        find_new_leads(self,
                       IF "criteria" \in DOMAIN config THEN config.criteria
                       ELSE [titles |-> <<"CEO", "CTO", "VP Engineering">>,
                             max_leads |-> 20],
                       t, save_fails))

\* (average * (n - 1) + execution_time) / n, for the rational average <<a, b>>
RunningMean(average, n, execution_time) ==
    Rat(average[1] * (n - 1) + execution_time * average[2], average[2] * n)

\* Provider mode. env.scan_raises: lead_scanner.scan_for_leads raises; env.scan:
\* the sequence of leads it returns otherwise (each lead given by its score);
\* env.execution_time is the time measured.  The scanned leads go to Redis
\* only (a Redis failure is caught per lead): leads_database is not written.
_execute_lead_generation_workflow(self, config, env, t) ==
    IF ~lead_scanner
    THEN _execute_lead_generation_mock(self, config, t, env.save_fails)
    ELSE IF env.scan_raises
    THEN [self |-> self,
          result |-> [success |-> FALSE,
                      error |-> "scan failed",
                      workflow_type |-> "lead_generation",
                      execution_time |-> env.execution_time]]
    ELSE LET leads == env.scan
             n == self.metrics.total_workflows_executed + 1
             m == [self.metrics EXCEPT
                      !.leads_generated = @ + Len(leads),
                      !.total_workflows_executed = n,
                      !.last_execution = t,
                      !.average_execution_time =
                          RunningMean(@, n, env.execution_time)]
         IN  [self |-> [self EXCEPT !.metrics = m],
              result |-> [success |-> TRUE,
                          workflow_type |-> "lead_generation",
                          leads_found |-> Len(leads),
                          leads |-> SubSeq(leads, 1, Min(Len(leads), 10)),
                          execution_time |-> env.execution_time,
                          metrics |-> m]]

\* _qualify_lead as it would be if decision_maker required a score above 8.
_qualify_lead_strict(lead) ==
    IF lead.score >= 7
    THEN <<[lead |-> lead.id,
            qualification_score |-> lead.score,
            pain_points |-> <<"automation", "efficiency">>,
            budget_range |-> "10k-50k",
            timeline |-> "Q1",
            decision_maker |-> (lead.score > 8),
            next_action |-> "schedule_meeting",
            meeting_scheduled |-> FALSE]>>
    ELSE << >>

\* --------------------------------------------------------------- nurture
\* _qualify_lead: a Prospect for a lead with score >= 7, None (here << >>)
\* otherwise.  The Prospect refers to the Lead object; the only field read
\* through that reference is the score, which no code path changes, so the
\* Prospect carries the lead's id and its score.
_qualify_lead(lead) ==
    IF lead.score >= 7
    THEN <<[lead |-> lead.id,
            qualification_score |-> lead.score,
            pain_points |-> <<"automation", "efficiency">>,
            budget_range |-> "10k-50k",
            timeline |-> "Q1",
            decision_maker |-> (lead.score >= 8),
            next_action |-> "schedule_meeting",
            meeting_scheduled |-> FALSE]>>
    ELSE << >>

\* NurtureLead as it would be if a re-qualification added a second entry for
\* the lead instead of replacing the first.
NurtureLeadAddingEntries(acc, id, t) ==
    LET self == acc.self
        results == acc.results
        lead == self.leads_database[id]
        first == lead.status = "new"
        follow == lead.status = "contacted" /\ lead.contact_attempts < 3
        sent == first \/ follow
        l1 == IF sent
              THEN [lead EXCEPT !.notes = @ + 1,
                                !.contact_attempts = @ + 1,
                                !.last_contacted = t,
                                !.status = IF first THEN "contacted" ELSE @]
              ELSE lead
        check == l1.score > 7 /\ l1.contact_attempts >= 2
        prospect == IF check THEN _qualify_lead(l1) ELSE << >>
        qualified == prospect # << >>
        l2 == IF qualified THEN [l1 EXCEPT !.status = "qualified"] ELSE l1
        pp == self.prospects_pipeline
        key == IF id \in DOMAIN pp THEN <<id[1], id[2] + MaxLeads>> ELSE id
    IN  [self |-> [self EXCEPT
                      !.leads_database = [@ EXCEPT ![id] = l2],
                      !.prospects_pipeline =
                          IF qualified
                          THEN [k \in DOMAIN pp \cup {key} |->
                                   IF k = key THEN prospect[1] ELSE pp[k]]
                          ELSE pp],
         results |-> [results EXCEPT
                         !.emails_sent = @ + (IF sent THEN 1 ELSE 0),
                         !.prospects_qualified = @ + (IF qualified THEN 1 ELSE 0),
                         !.leads_contacted = @ + 1]]

\* NurtureLead as it would be if a follow-up were sent to every contacted
\* lead, whatever its contact_attempts.
NurtureLeadWithoutLimit(acc, id, t) ==
    LET self == acc.self
        results == acc.results
        lead == self.leads_database[id]
        first == lead.status = "new"
        follow == lead.status = "contacted"
        sent == first \/ follow
        l1 == IF sent
              THEN [lead EXCEPT !.notes = @ + 1,
                                !.contact_attempts = @ + 1,
                                !.last_contacted = t,
                                !.status = IF first THEN "contacted" ELSE @]
              ELSE lead
        check == l1.score > 7 /\ l1.contact_attempts >= 2
        prospect == IF check THEN _qualify_lead(l1) ELSE << >>
        qualified == prospect # << >>
        l2 == IF qualified THEN [l1 EXCEPT !.status = "qualified"] ELSE l1
        pp == self.prospects_pipeline
    IN  [self |-> [self EXCEPT
                      !.leads_database = [@ EXCEPT ![id] = l2],
                      !.prospects_pipeline =
                          IF qualified
                          THEN [k \in DOMAIN pp \cup {id} |->
                                   IF k = id THEN prospect[1] ELSE pp[k]]
                          ELSE pp],
         results |-> [results EXCEPT
                         !.emails_sent = @ + (IF sent THEN 1 ELSE 0),
                         !.prospects_qualified = @ + (IF qualified THEN 1 ELSE 0),
                         !.leads_contacted = @ + 1]]

\* One pass of the loop body of nurture_prospects for the lead stored under id,
\* at clock time t: [self, results].
NurtureLead(acc, id, t) ==
    LET self == acc.self
        results == acc.results
        lead == self.leads_database[id]
        first == lead.status = "new"
        follow == lead.status = "contacted" /\ lead.contact_attempts < 3
        sent == first \/ follow          \* _send_outreach_email returns True
        l1 == IF sent
              THEN [lead EXCEPT !.notes = @ + 1,
                                !.contact_attempts = @ + 1,
                                !.last_contacted = t,
                                !.status = IF first THEN "contacted" ELSE @]
              ELSE lead
        check == l1.score > 7 /\ l1.contact_attempts >= 2
        prospect == IF check THEN _qualify_lead(l1) ELSE << >>
        qualified == prospect # << >>
        l2 == IF qualified THEN [l1 EXCEPT !.status = "qualified"] ELSE l1
        pp == self.prospects_pipeline
    IN  [self |-> [self EXCEPT
                      !.leads_database = [@ EXCEPT ![id] = l2],
                      !.prospects_pipeline =
                          IF qualified
                          THEN [k \in DOMAIN pp \cup {id} |->
                                   IF k = id THEN prospect[1] ELSE pp[k]]
                          ELSE pp],
         results |-> [results EXCEPT
                         !.emails_sent = @ + (IF sent THEN 1 ELSE 0),
                         !.prospects_qualified = @ + (IF qualified THEN 1 ELSE 0),
                         !.leads_contacted = @ + 1]]

\* for lead in leads: try: ... except: errors.append(...).  item_faults holds
\* the positions of the batch whose processing raises (before it has changed
\* the lead).
\* acc is [self, results].
\* NurtureLoop as it would be if an item's exception ended the batch.
RECURSIVE NurtureLoopAborting(_, _, _, _, _)
NurtureLoopAborting(acc, leads, i, t, item_faults) ==
    IF i > Len(leads) THEN acc
    ELSE IF i \in item_faults
    THEN [acc EXCEPT !.results.errors = Append(@, leads[i])]
    ELSE NurtureLoopAborting(NurtureLead(acc, leads[i], t), leads, i + 1, t,
                             item_faults)

RECURSIVE NurtureLoop(_, _, _, _, _)
NurtureLoop(acc, leads, i, t, item_faults) ==
    IF i > Len(leads) THEN acc
    ELSE IF i \in item_faults
    THEN NurtureLoop([acc EXCEPT !.results.errors = Append(@, leads[i])],
                     leads, i + 1, t, item_faults)
    ELSE NurtureLoop(NurtureLead(acc, leads[i], t), leads, i + 1, t, item_faults)

\* nurture_prospects(leads): leads is the list of the ids of the Lead objects.
\* When save_state raises, the outer handler returns the failure record.
\* await self.save_state(); return results -- or the handler's failure record
Saved(acc, env) ==
    IF env.save_fails
    THEN [acc EXCEPT !.results = [success |-> FALSE, error |-> "save_state failed"]]
    ELSE acc

nurture_prospects(self, leads, t, env) ==
    Saved(NurtureLoop([self |-> self,
                       results |-> [leads_contacted |-> 0, emails_sent |-> 0,
                                    responses_received |-> 0,
                                    prospects_qualified |-> 0, errors |-> << >>]],
                      leads, 1, t, env.item_faults),
          env)

\* A sequence listing the elements of the finite set S (a dict's keys).
RECURSIVE SetToSeq(_)
SetToSeq(S) ==
    IF S = {} THEN << >>
    ELSE LET x == CHOOSE y \in S : \A z \in S : y[1] < z[1] \/ (y[1] = z[1] /\ y[2] <= z[2])
         IN  <<x>> \o SetToSeq(S \ {x})

\* [x for x in seq if x in S]
RECURSIVE Filter(_, _)
Filter(seq, S) ==
    IF seq = << >> THEN << >>
    ELSE (IF Head(seq) \in S THEN <<Head(seq)>> ELSE << >>) \o Filter(Tail(seq), S)

\* task.get("lead_ids", list(self.leads_database.keys()))
LeadIds(self, task) ==
    IF "lead_ids" \in DOMAIN task THEN task.lead_ids
    ELSE SetToSeq(DOMAIN self.leads_database)

NurturingEnvelope(r) ==
    [self |-> r.self,
     result |-> [success |-> TRUE,
                 workflow_type |-> "lead_nurturing",
                 nurturing_results |-> r.results]]

\* env.wrapper_raises: an exception reaches the handler of the workflow method
\* itself (line 1047), before nurture_prospects is called.
_execute_lead_nurturing_workflow(self, task, t, env) ==
    IF env.wrapper_raises
    THEN [self |-> self, result |-> [success |-> FALSE, error |-> "nurturing failed"]]
    ELSE NurturingEnvelope(
             nurture_prospects(self,
                               \* leads_to_nurture
                               Filter(LeadIds(self, task), DOMAIN self.leads_database),
                               t, env))

\* ------------------------------------------------------------ scheduling
\* timedelta(days=3), in seconds
ThreeDays == 259200

\* _find_available_slot: always the time three days from now.
_find_available_slot(meeting_type, preferred_times, t) == t + ThreeDays

\* prospect_data.get("meeting_type", "discovery_call")
MeetingType(prospect_data) ==
    IF "meeting_type" \in DOMAIN prospect_data THEN prospect_data.meeting_type
    ELSE "discovery_call"

\* One pass of the loop body of schedule_meetings.
ScheduleOne(acc, prospect_data, t) ==
    LET self == acc.self
        results == acc.results
        prospect_id == prospect_data.prospect_id
        meeting_type == MeetingType(prospect_data)
        available_slot == _find_available_slot(meeting_type, << >>, t)
        meeting == [id |-> t,                 \* meeting_<timestamp>
                    prospect_id |-> prospect_id,
                    type |-> meeting_type,
                    scheduled_time |-> available_slot,
                    duration |-> 30,
                    status |-> "confirmed",
                    created_at |-> t]
    IN  [self |-> [self EXCEPT
                      !.meetings_scheduled = Append(@, meeting),
                      !.prospects_pipeline =
                          IF prospect_id \in DOMAIN @
                          THEN [@ EXCEPT ![prospect_id].meeting_scheduled = TRUE,
                                         ![prospect_id].next_action = "attend_meeting"]
                          ELSE @],
         results |-> [results EXCEPT
                         !.meetings_confirmed = @ + 1,
                         !.scheduled_meetings = Append(@, meeting),
                         !.meetings_requested = @ + 1]]

RECURSIVE ScheduleLoop(_, _, _, _, _)
ScheduleLoop(acc, prospects, i, t, item_faults) ==
    IF i > Len(prospects) THEN acc
    ELSE IF i \in item_faults
    THEN ScheduleLoop([acc EXCEPT !.results.errors =
                                      Append(@, prospects[i].prospect_id)],
                      prospects, i + 1, t, item_faults)
    ELSE ScheduleLoop(ScheduleOne(acc, prospects[i], t), prospects, i + 1, t,
                      item_faults)

\* schedule_meetings as it would be if the entries whose prospect_id names no
\* Prospect were skipped.
schedule_meetings_of_known(self, prospects, t, env) ==
    Saved(ScheduleLoop([self |-> self,
                        results |-> [meetings_requested |-> 0,
                                     meetings_confirmed |-> 0,
                                     calendar_conflicts |-> 0,
                                     scheduled_meetings |-> << >>,
                                     errors |-> << >>]],
                       SelectSeq(prospects,
                                 LAMBDA p : p.prospect_id \in DOMAIN self.prospects_pipeline),
                       1, t, env.item_faults),
          env)

schedule_meetings(self, prospects, t, env) ==
    Saved(ScheduleLoop([self |-> self,
                        results |-> [meetings_requested |-> 0,
                                     meetings_confirmed |-> 0,
                                     calendar_conflicts |-> 0,
                                     scheduled_meetings |-> << >>,
                                     errors |-> << >>]],
                       prospects, 1, t, env.item_faults),
          env)

\* Unscheduled as it would be without the meeting_scheduled filter.
UnscheduledOrNot(self) ==
    LET ids == SetToSeq(DOMAIN self.prospects_pipeline)
    IN  [k \in 1..Len(ids) |-> [prospect_id |-> ids[k], meeting_type |-> "discovery_call"]]

\* The qualified prospects without a meeting, as scheduling requests.
Unscheduled(self) ==
    LET pp == self.prospects_pipeline
        ids == SetToSeq({pid \in DOMAIN pp : ~pp[pid].meeting_scheduled})
    IN  [k \in 1..Len(ids) |-> [prospect_id |-> ids[k], meeting_type |-> "discovery_call"]]

SchedulingEnvelope(r) ==
    [self |-> r.self,
     result |-> [success |-> TRUE,
                 workflow_type |-> "meeting_scheduling",
                 scheduling_results |-> r.results]]

_execute_meeting_scheduling_workflow(self, task, t, env) ==
    IF env.wrapper_raises
    THEN [self |-> self, result |-> [success |-> FALSE, error |-> "scheduling failed"]]
    ELSE SchedulingEnvelope(
             schedule_meetings(self,
                               \* prospects_data
                               IF "prospects" \in DOMAIN task /\ task.prospects # << >>
                               THEN task.prospects ELSE Unscheduled(self),
                               t, env))

\* ------------------------------------------------------------- reporting
RECURSIVE SumScores(_, _)
SumScores(pp, ids) ==
    IF ids = {} THEN 0
    ELSE LET x == CHOOSE y \in ids : TRUE
         IN  pp[x].qualification_score * 1000 + SumScores(pp, ids \ {x})

\* _generate_pipeline_recommendations as it would be if a store of exactly 10
\* leads still got the lead-generation message.
_generate_pipeline_recommendations_upto10(self) ==
    LET a == IF Cardinality(DOMAIN self.leads_database) <= 10
             THEN <<"Increase lead generation activity">> ELSE << >>
        b == IF Cardinality(DOMAIN self.prospects_pipeline) = 0
             THEN <<"Focus on lead qualification">> ELSE << >>
        c == IF Len(self.meetings_scheduled) = 0
             THEN <<"Prioritize meeting scheduling">> ELSE << >>
        recommendations == a \o b \o c
    IN  IF recommendations # << >> THEN recommendations
        ELSE <<"Pipeline is performing well">>

_generate_pipeline_recommendations(self) ==
    LET a == IF Cardinality(DOMAIN self.leads_database) < 10
             THEN <<"Increase lead generation activity">> ELSE << >>
        b == IF Cardinality(DOMAIN self.prospects_pipeline) = 0
             THEN <<"Focus on lead qualification">> ELSE << >>
        c == IF Len(self.meetings_scheduled) = 0
             THEN <<"Prioritize meeting scheduling">> ELSE << >>
        recommendations == a \o b \o c
    IN  IF recommendations # << >> THEN recommendations
        ELSE <<"Pipeline is performing well">>

\* report_pipeline_status as it would be if the conversion rates were divided
\* without the test total_leads > 0: on an empty store the division raises.
report_pipeline_status_unguarded(self, env) ==
    IF env.report_raises THEN [success |-> FALSE, error |-> "report failed"]
    ELSE IF DOMAIN self.leads_database = {}
    THEN [success |-> FALSE, error |-> "division by zero"]
    ELSE
    LET db == self.leads_database
        total_leads == Cardinality(DOMAIN db)
        total_prospects == Cardinality(DOMAIN self.prospects_pipeline)
        total_meetings == Len(self.meetings_scheduled)
        statuses == {db[k].status : k \in DOMAIN db}
        lead_to_prospect_rate ==
            IF total_leads > 0 THEN Rat(total_prospects, total_leads) ELSE Zero
        lead_to_meeting_rate ==
            IF total_leads > 0 THEN Rat(total_meetings, total_leads) ELSE Zero
        total_pipeline_value ==
            SumScores(self.prospects_pipeline, DOMAIN self.prospects_pipeline)
    IN  [summary |-> [total_leads |-> total_leads,
                      total_prospects |-> total_prospects,
                      total_meetings |-> total_meetings,
                      pipeline_value |-> total_pipeline_value,
                      lead_to_prospect_conversion |-> lead_to_prospect_rate,
                      lead_to_meeting_conversion |-> lead_to_meeting_rate],
         lead_breakdown |->
             [s \in statuses |-> Cardinality({k \in DOMAIN db : db[k].status = s})],
         targets_vs_actual |-> [leads_target |-> 100, leads_actual |-> total_leads,
                                meetings_target |-> 20,
                                meetings_actual |-> total_meetings,
                                pipeline_value_target |-> 50000,
                                pipeline_value_actual |-> total_pipeline_value],
         recommendations |-> _generate_pipeline_recommendations(self),
         health_indicators |->
             [pipeline_health |->
                  IF total_prospects > 0 THEN "healthy" ELSE "needs_attention",
              activity_level |-> IF total_leads > 10 THEN "high" ELSE "low",
              conversion_health |->
                  \* lead_to_prospect_rate > 0.1
                  IF 10 * lead_to_prospect_rate[1] > lead_to_prospect_rate[2]
                  THEN "good" ELSE "needs_improvement"]]

\* report_pipeline_status; env.report_raises: an exception inside its try block.
report_pipeline_status(self, env) ==
    IF env.report_raises THEN [success |-> FALSE, error |-> "report failed"]
    ELSE
    LET db == self.leads_database
        total_leads == Cardinality(DOMAIN db)
        total_prospects == Cardinality(DOMAIN self.prospects_pipeline)
        total_meetings == Len(self.meetings_scheduled)
        statuses == {db[k].status : k \in DOMAIN db}
        lead_to_prospect_rate ==
            IF total_leads > 0 THEN Rat(total_prospects, total_leads) ELSE Zero
        lead_to_meeting_rate ==
            IF total_leads > 0 THEN Rat(total_meetings, total_leads) ELSE Zero
        total_pipeline_value ==
            SumScores(self.prospects_pipeline, DOMAIN self.prospects_pipeline)
    IN  [summary |-> [total_leads |-> total_leads,
                      total_prospects |-> total_prospects,
                      total_meetings |-> total_meetings,
                      pipeline_value |-> total_pipeline_value,
                      lead_to_prospect_conversion |-> lead_to_prospect_rate,
                      lead_to_meeting_conversion |-> lead_to_meeting_rate],
         lead_breakdown |->
             [s \in statuses |-> Cardinality({k \in DOMAIN db : db[k].status = s})],
         targets_vs_actual |-> [leads_target |-> 100, leads_actual |-> total_leads,
                                meetings_target |-> 20,
                                meetings_actual |-> total_meetings,
                                pipeline_value_target |-> 50000,
                                pipeline_value_actual |-> total_pipeline_value],
         recommendations |-> _generate_pipeline_recommendations(self),
         health_indicators |->
             [pipeline_health |->
                  IF total_prospects > 0 THEN "healthy" ELSE "needs_attention",
              activity_level |-> IF total_leads > 10 THEN "high" ELSE "low",
              conversion_health |->
                  \* lead_to_prospect_rate > 0.1
                  IF 10 * lead_to_prospect_rate[1] > lead_to_prospect_rate[2]
                  THEN "good" ELSE "needs_improvement"]]

\* _execute_pipeline_reporting_workflow as it would be if it counted itself
\* in total_workflows_executed.
_execute_pipeline_reporting_workflow_counted(self, task, env) ==
    [self |-> [self EXCEPT !.metrics.total_workflows_executed = @ + 1],
     result |-> [success |-> TRUE,
                 workflow_type |-> "pipeline_reporting",
                 report |-> report_pipeline_status(self, env)]]

_execute_pipeline_reporting_workflow(self, task, env) ==
    IF env.wrapper_raises
    THEN [self |-> self, result |-> [success |-> FALSE, error |-> "reporting failed"]]
    ELSE [self |-> self,
          result |-> [success |-> TRUE,
                      workflow_type |-> "pipeline_reporting",
                      report |-> report_pipeline_status(self, env)]]

\* _calculate_current_metrics
_calculate_current_metrics(self) ==
    [leads_generated |-> Cardinality(DOMAIN self.leads_database),
     meetings_booked |-> Len(self.meetings_scheduled),
     pipeline_value |->
         SumScores(self.prospects_pipeline, DOMAIN self.prospects_pipeline),
     conversion_rate |->
         Rat(Cardinality(DOMAIN self.prospects_pipeline),
             IF Cardinality(DOMAIN self.leads_database) > 1
             THEN Cardinality(DOMAIN self.leads_database) ELSE 1)]

_assess_pipeline_health ==
    [status |-> "healthy", lead_flow |-> "consistent",
     conversion_trend |-> "improving", activity_level |-> "high"]

\* get_status: [self, result].  raises: an exception inside its try block (the
\* fields read from the base class are left out of the result).
get_status(self, raises) ==
    [self |-> self,
     result |->
         IF raises
         THEN [department |-> "Sales", health_status |-> "error",
               error |-> "status failed"]
         ELSE [department |-> "Sales",
               current_metrics |-> _calculate_current_metrics(self),
               pipeline_health |-> _assess_pipeline_health,
               sales_targets |-> [monthly_leads |-> 100, monthly_meetings |-> 20,
                                  monthly_pipeline_value |-> 50000],
               leads_count |-> Cardinality(DOMAIN self.leads_database),
               prospects_count |-> Cardinality(DOMAIN self.prospects_pipeline),
               meetings_scheduled_count |-> Len(self.meetings_scheduled)]]

\* -------------------------------------------------- outreach workflows
\* round(x) of Python for the exact rational n/d: to the nearest integer, a
\* tie to the even one.
Round(n, d) ==
    LET q == n \div d
        r == n % d
    IN  IF 2 * r < d THEN q
        ELSE IF 2 * r > d THEN q + 1
        ELSE IF q % 2 = 0 THEN q ELSE q + 1

\* Composed as it would be if the first exception of compose_outreach ended
\* the loop over the leads.
RECURSIVE ComposedUntilFailure(_, _)
ComposedUntilFailure(leads, compose) ==
    IF leads = << >> \/ ~compose[1].ok THEN << >>
    ELSE <<compose[1]>> \o ComposedUntilFailure(Tail(leads), Tail(compose))

\* The messages compose_outreach returned, in order: env.compose[k] is the
\* outcome for lead k, [ok |-> FALSE] when compose_outreach raises.
Composed(leads, compose) ==
    LET idx == SetToSeq({<<0, k>> : k \in {j \in 1..Len(leads) : compose[j].ok}})
    IN  [k \in 1..Len(idx) |-> compose[idx[k][2]]]

RECURSIVE SumField(_, _)
SumField(msgs, f) ==
    IF msgs = << >> THEN 0 ELSE Head(msgs)[f] + SumField(Tail(msgs), f)

\* quick_wins.  Scores and rates of messages are in hundredths.
_execute_quick_wins_workflow(self, config, env, t) ==
    IF ~lead_scanner
    THEN [self |-> self,
          result |-> [success |-> FALSE, error |-> "Real agents not available",
                      workflow_type |-> "quick_wins"]]
    ELSE IF env.scan_raises
    THEN [self |-> self,
          result |-> [success |-> FALSE, error |-> "scan failed",
                      workflow_type |-> "quick_wins",
                      execution_time |-> env.execution_time]]
    ELSE IF env.scan = << >>
    THEN [self |-> self,
          result |-> [success |-> TRUE, workflow_type |-> "quick_wins",
                      message |-> "No high-quality leads found with current criteria",
                      leads_found |-> 0,
                      execution_time |-> env.execution_time]]
    ELSE LET leads == env.scan
             outreach_results == Composed(leads, env.compose)
             m == [self.metrics EXCEPT
                      !.messages_composed = @ + Len(outreach_results),
                      !.leads_qualified = @ + Len(leads),
                      !.total_workflows_executed = @ + 1,
                      !.last_execution = t]
         IN  [self |-> [self EXCEPT !.metrics = m],
              result |-> [success |-> TRUE, workflow_type |-> "quick_wins",
                          leads_found |-> Len(leads),
                          messages_generated |-> Len(outreach_results),
                          quick_wins |-> outreach_results,
                          execution_time |-> env.execution_time,
                          metrics |-> m]]

_execute_full_outreach_workflow(self, config, env, t) ==
    IF ~lead_scanner
    THEN [self |-> self,
          result |-> [success |-> FALSE, error |-> "Real agents not available",
                      workflow_type |-> "full_outreach"]]
    ELSE IF env.scan_raises
    THEN [self |-> self,
          result |-> [success |-> FALSE, error |-> "scan failed",
                      workflow_type |-> "full_outreach",
                      execution_time |-> env.execution_time]]
    ELSE IF env.scan = << >>
    THEN [self |-> self,
          result |-> [success |-> TRUE, workflow_type |-> "full_outreach",
                      message |-> "No qualifying leads found",
                      leads_found |-> 0,
                      execution_time |-> env.execution_time]]
    ELSE LET leads == env.scan
             campaign_messages == Composed(leads, env.compose)
             n == Len(campaign_messages)
             total_personalization == SumField(campaign_messages, "personalization_score")
             total_response_rate == SumField(campaign_messages, "predicted_response_rate")
             avg_personalization == IF n > 0 THEN Rat(total_personalization, n) ELSE Zero
             avg_response_rate == IF n > 0 THEN Rat(total_response_rate, n) ELSE Zero
             m == [self.metrics EXCEPT
                      !.messages_composed = @ + n,
                      !.leads_qualified = @ + Len(leads),
                      !.personalization_score = avg_personalization,
                      !.response_rate = avg_response_rate,
                      !.total_workflows_executed = @ + 1,
                      !.last_execution = t]
         IN  [self |-> [self EXCEPT !.metrics = m],
              result |-> [success |-> TRUE, workflow_type |-> "full_outreach",
                          campaign_summary |->
                              [leads_found |-> Len(leads),
                               messages_generated |-> n,
                               \* round(avg, 2), in hundredths
                               avg_personalization_score |->
                                   Round(avg_personalization[1], avg_personalization[2]),
                               avg_response_rate |->
                                   Round(avg_response_rate[1], avg_response_rate[2]),
                               estimated_responses |->
                                   Round(n * avg_response_rate[1],
                                         100 * avg_response_rate[2]),
                               campaign_size |->
                                   IF "campaign_size" \in DOMAIN config
                                   THEN config.campaign_size ELSE 25],
                          messages |-> SubSeq(campaign_messages, 1, Min(n, 5)),
                          execution_time |-> env.execution_time,
                          metrics |-> m]]

\* _execute_mock_workflow: the answer to an unknown workflow_type.
_execute_mock_workflow(self, config) ==
    [self |-> self,
     result |-> [success |-> FALSE,
                 error |-> "Mock workflow not implemented",
                 workflow_type |-> config.workflow_type,
                 fallback |-> "Real agents not available",
                 suggestion |-> "Check agent initialization"]]

\* ---------------------------------------------------------- full pipeline
EmptyDict == [x \in {} |-> x]

\* results[key] = stage_result; results["stages_completed"].append(stage),
\* for the pipeline state p = [self, result] and the value s = [self, result]
\* of the stage executor.
StageDone(p, key, stage, s) ==
    [self |-> s.self,
     result |-> (key :> s.result) @@
                [p.result EXCEPT !.stages_completed = Append(@, stage)]]

\* The four stages run one after the other, each on the store the stage
\* before left; env has one environment per stage.
Stage1(p, task, env, t) ==
    StageDone(p, "lead_generation", "lead_generation",
              _execute_lead_generation_workflow(
                  p.self,
                  \* lead_gen_task
                  [criteria |-> IF "lead_criteria" \in DOMAIN task
                                THEN task.lead_criteria ELSE EmptyDict],
                  env.lead_generation, t))

Stage2(p, task, env, t) ==
    StageDone(p, "lead_nurturing", "lead_nurturing",
              _execute_lead_nurturing_workflow(
                  p.self, [lead_ids |-> << >>], t, env.lead_nurturing))

\* Stage3 as it would be if the pipeline gave up after a failed nurture stage.
Stage3AfterSuccessOnly(p, task, env, t) ==
    IF ~p.result.lead_nurturing.success THEN p
    ELSE StageDone(p, "meeting_scheduling", "meeting_scheduling",
                   _execute_meeting_scheduling_workflow(
                       p.self, [prospects |-> << >>], t, env.meeting_scheduling))

Stage3(p, task, env, t) ==
    StageDone(p, "meeting_scheduling", "meeting_scheduling",
              _execute_meeting_scheduling_workflow(
                  p.self, [prospects |-> << >>], t, env.meeting_scheduling))

Stage4(p, task, env, t) ==
    StageDone(p, "pipeline_report", "pipeline_reporting",
              _execute_pipeline_reporting_workflow(
                  p.self, EmptyDict, env.pipeline_reporting))

_execute_full_pipeline_workflow(self, task, env, t) ==
    Stage4(Stage3(Stage2(Stage1(
        [self |-> self,
         result |-> [success |-> TRUE, workflow_type |-> "full_pipeline",
                     stages_completed |-> << >>]],
        task, env, t), task, env, t), task, env, t), task, env, t)

\* ------------------------------------------------------------ dispatch
\* The if/elif chain of execute_workflow.
Dispatch(self, config, env, t) ==
    LET workflow_type == IF "workflow_type" \in DOMAIN config
                         THEN config.workflow_type ELSE "lead_generation"
    IN  CASE workflow_type = "lead_generation" ->
                 _execute_lead_generation_workflow(self, config, env, t)
          [] workflow_type = "quick_wins" ->
                 _execute_quick_wins_workflow(self, config, env, t)
          [] workflow_type = "full_outreach" ->
                 _execute_full_outreach_workflow(self, config, env, t)
          [] workflow_type = "lead_nurturing" ->
                 _execute_lead_nurturing_workflow(self, config, t, env)
          [] workflow_type = "meeting_scheduling" ->
                 _execute_meeting_scheduling_workflow(self, config, t, env)
          [] workflow_type = "pipeline_reporting" ->
                 _execute_pipeline_reporting_workflow(self, config, env)
          [] workflow_type = "full_pipeline" ->
                 _execute_full_pipeline_workflow(self, config, env, t)
          [] OTHER -> _execute_mock_workflow(self, config)

\* execute_workflow and execute_workflow_safe call each other: the handler of
\* execute_workflow (line 364) calls execute_workflow_safe, which calls
\* execute_workflow again.  depth is the number of nested frames of the two;
\* a call that would make it exceed RecursionLimit raises RecursionError.
\* env.escapes is the number of dispatch attempts in which an exception reaches
\* the handler of execute_workflow, raised before the stage executor has
\* changed the store; attempt is the number of the dispatch attempt.
\* The value is [self, result, attempts, raised].
\* return await self._execute_..._workflow(config)
Returned(r, attempt) ==
    [self |-> r.self, result |-> r.result, attempts |-> attempt, raised |-> "none"]

\* try: return await self.execute_workflow(config) / except Exception as e: ...
SafeReturn(r, config) ==
    IF r.raised # "none"
    THEN [self |-> r.self,
          result |-> [success |-> FALSE,
                      error |-> "maximum recursion depth exceeded",
                      error_type |-> r.raised,
                      workflow_type |-> config.workflow_type,
                      fallback |-> "Contact support if this persists"],
          attempts |-> r.attempts,
          raised |-> "none"]
    ELSE r

RECURSIVE execute_workflow(_, _, _, _, _, _)
RECURSIVE execute_workflow_safe(_, _, _, _, _, _)
execute_workflow(self, config, env, t, depth, attempt) ==
    IF depth > RecursionLimit
    THEN [self |-> self, result |-> EmptyDict, attempts |-> attempt - 1,
          raised |-> "RecursionError"]
    ELSE IF attempt <= env.escapes
    THEN execute_workflow_safe(self, config, env, t, depth + 1, attempt)
    ELSE Returned(Dispatch(self, config, env, t), attempt)

execute_workflow_safe(self, config, env, t, depth, attempt) ==
    IF depth > RecursionLimit
    THEN [self |-> self, result |-> EmptyDict, attempts |-> attempt,
          raised |-> "RecursionError"]
    ELSE SafeReturn(execute_workflow(self, config, env, t, depth + 1, attempt + 1),
                    config)

\* results.get(key, 0)
Get0(results, key) == IF key \in DOMAIN results THEN results[key] ELSE 0

\* update_metrics as it would be with leads_generated assigned, not added to.
update_metrics_assigning(self, workflow_type, results, t) ==
    [self EXCEPT !.metrics =
        [@ EXCEPT !.total_workflows_executed = @ + 1,
                  !.last_execution = t,
                  !.leads_generated = IF workflow_type = "lead_generation"
                                      THEN Get0(results, "leads_found") ELSE @]]

\* update_metrics as it would be if the success count were not divided by
\* total_workflows_executed.
update_metrics_undivided(self, workflow_type, results, t) ==
    [self EXCEPT !.metrics =
        [@ EXCEPT !.total_workflows_executed = @ + 1,
                  !.last_execution = t,
                  !.success_rate =
                      Rat(IF "success" \in DOMAIN results /\ results.success
                          THEN 1 ELSE 0, 1)]]

update_metrics(self, workflow_type, results, t) ==
    LET m0 == [self.metrics EXCEPT !.total_workflows_executed = @ + 1,
                                   !.last_execution = t]
        campaign_summary == IF "campaign_summary" \in DOMAIN results
                            THEN results.campaign_summary ELSE EmptyDict
        m1 == CASE workflow_type = "lead_generation" ->
                     [m0 EXCEPT !.leads_generated = @ + Get0(results, "leads_found")]
                [] workflow_type = "quick_wins" ->
                     [m0 EXCEPT
                         !.leads_qualified = @ + Get0(results, "leads_found"),
                         !.messages_composed = @ + Get0(results, "messages_generated")]
                [] workflow_type = "full_outreach" ->
                     [m0 EXCEPT
                         !.leads_qualified = @ + Get0(campaign_summary, "leads_found"),
                         !.messages_composed =
                             @ + Get0(campaign_summary, "messages_generated"),
                         !.personalization_score =
                             Rat(Get0(campaign_summary, "avg_personalization_score"), 1),
                         !.response_rate =
                             Rat(Get0(campaign_summary, "avg_response_rate"), 1)]
                [] OTHER -> m0
        successful_workflows ==
            IF "success" \in DOMAIN results /\ results.success THEN 1 ELSE 0
    IN  [self EXCEPT !.metrics =
            [m1 EXCEPT !.success_rate =
                Rat(successful_workflows, m1.total_workflows_executed)]]

\* ---------------------------------------------------------------- inputs
\* Search criteria of the fallback generator (find_new_leads); the scores of
\* the leads they make are 10, 10, .. / 7, 8, 7, .. / 5, 5, ..
DefaultCriteria == {[max_leads |-> n] : n \in 0..MaxLeads}

CriteriaChoices ==
    DefaultCriteria
    \cup {[titles |-> <<"CEO", "Engineer">>, industries |-> <<"Retail", "SaaS">>,
           max_leads |-> n] : n \in 1..MaxLeads}
    \cup {[titles |-> <<"Engineer">>, industries |-> <<"Retail">>,
           max_leads |-> n] : n \in 1..MaxLeads}

\* What the lead scanner returns from one scan: up to MaxScan leads, each
\* given by its score (0..100).
Scans == {[k \in 1..n |-> 85] : n \in 0..MaxScan}

\* Criteria whose leads score 8, 7, 8, .. (Engineer in SaaS, CEO in Retail),
\* and criteria whose one lead scores 5.
LifecycleCriteria ==
    {[titles |-> <<"Engineer", "CEO">>, industries |-> <<"SaaS", "Retail">>,
      max_leads |-> n] : n \in 1..MaxLeads}
    \cup {[titles |-> <<"Engineer">>, industries |-> <<"Retail">>, max_leads |-> 1]}

\* Scans whose leads score below and above a requested min_score of 80.
ScoredScans == UNION {[1..n -> {60, 85}] : n \in 0..MaxScan}

\* What compose_outreach does for one lead: it raises, or returns a message
\* with a personalization score and a predicted response rate (hundredths).
ComposeOutcomes ==
    {[ok |-> FALSE],
     [ok |-> TRUE, personalization_score |-> 85, predicted_response_rate |-> 20],
     [ok |-> TRUE, personalization_score |-> 60, predicted_response_rate |-> 15]}

\* Lead attributes handed to _calculate_lead_score: the three it reads, and
\* with or without a name, which it does not read.
LeadData ==
    LET scored == [title : {"CEO", "CTO", "VP Engineering", "Director", "Engineer"},
                   company_size : {"11-50", "51-200", "Startup", "Enterprise",
                                   "Mid-Market Enterprise"},
                   industry : {"Technology", "SaaS", "Retail", "Fintech Software"}]
    IN  scored \cup {d @@ [name |-> "Jordan"] : d \in scored}

\* lead_generation requests with the defaults of the two generators: no
\* criteria (the fallback executor asks for 20 leads), criteria without
\* max_leads (find_new_leads makes 10), and criteria asking for one lead.
DefaultRequests ==
    {[workflow_type |-> "lead_generation"],
     [workflow_type |-> "lead_generation", criteria |-> EmptyDict],
     [workflow_type |-> "lead_generation", criteria |-> [max_leads |-> 1]]}

\* What the scanner returns to them: one lead, or more leads than the
\* envelope previews.
LongScans == {[k \in 1..n |-> 85] : n \in {1, 11}}

\* prospects lists of meeting_scheduling requests: the ids are those of the
\* first two leads of a discovery at time 0, Prospects or not.
ProspectLists ==
    {<<[prospect_id |-> <<0, 0>>]>>,
     <<[prospect_id |-> <<0, 1>>, meeting_type |-> "demo"],
       [prospect_id |-> <<0, 0>>]>>}

\* Requests made concurrently.
ConcurrentRequests ==
    {[workflow_type |-> "full_pipeline", lead_criteria |-> [max_leads |-> 1]],
     [workflow_type |-> "lead_generation", criteria |-> [max_leads |-> 1]],
     [workflow_type |-> "lead_nurturing"],
     [workflow_type |-> "meeting_scheduling"]}

\* Largest number of dispatch attempts the recursion limit leaves room for.
MaxEscapes == (RecursionLimit + 1) \div 2

DefaultEnv ==
    [escapes |-> 0, scan_raises |-> FALSE, scan |-> << >>, compose |-> << >>,
     execution_time |-> 1, save_fails |-> FALSE, wrapper_raises |-> FALSE,
     item_faults |-> {}, report_raises |-> FALSE]

\* Environments of one lead_generation stage: the scanner raises or returns
\* leads, and the stage takes one of the given durations (provider mode);
\* save_state works or raises (fallback mode).
GenEnvs(durations) ==
    IF lead_scanner
    THEN {[DefaultEnv EXCEPT !.scan_raises = TRUE, !.execution_time = d] :
              d \in durations}
         \cup {[DefaultEnv EXCEPT !.scan = sc, !.execution_time = d] :
                   sc \in Scans, d \in durations}
    ELSE {[DefaultEnv EXCEPT !.save_fails = b] : b \in BOOLEAN}

LeadGenEnvs == GenEnvs(Durations)

\* Environments of quick_wins and full_outreach, with the given outcomes of
\* compose_outreach and the given durations.
OutreachEnvs(outcomes, durations) ==
    IF lead_scanner
    THEN {[DefaultEnv EXCEPT !.scan_raises = TRUE, !.execution_time = d] :
              d \in durations}
         \cup UNION {{[DefaultEnv EXCEPT !.scan = sc, !.compose = c,
                                         !.execution_time = d] :
                          c \in [1..Len(sc) -> outcomes], d \in durations} :
                     sc \in Scans}
    ELSE {DefaultEnv}

\* Environments of a stage that fails as a whole, or does not.
FailOrNot == {DefaultEnv, [DefaultEnv EXCEPT !.wrapper_raises = TRUE]}

\* Environments of a batch stage (nurture, scheduling): the workflow method
\* fails, or save_state does, or neither.
StageEnvs ==
    {DefaultEnv, [DefaultEnv EXCEPT !.wrapper_raises = TRUE],
     [DefaultEnv EXCEPT !.save_fails = TRUE]}

ReportEnvs ==
    {DefaultEnv, [DefaultEnv EXCEPT !.wrapper_raises = TRUE],
     [DefaultEnv EXCEPT !.report_raises = TRUE]}

\* Environments of a nurture batch in which the items at some positions raise.
ItemFaultEnvs == {[DefaultEnv EXCEPT !.item_faults = F] : F \in SUBSET (1..MaxLeads)}

SaveFails == [DefaultEnv EXCEPT !.save_fails = TRUE]

\* Environments of a full_pipeline run: one per stage.
PipelineEnvs(gen, nurture, schedule, report) ==
    [lead_generation : gen, lead_nurturing : nurture,
     meeting_scheduling : schedule, pipeline_reporting : report, escapes : {0}]

\* A stage-level fault is raised in the environment env of workflow_type.
StageFault(workflow_type, env) ==
    CASE workflow_type \in {"lead_generation", "quick_wins", "full_outreach"} ->
             lead_scanner /\ env.scan_raises
      [] workflow_type \in {"lead_nurturing", "meeting_scheduling"} ->
             env.wrapper_raises
      [] workflow_type = "pipeline_reporting" ->
             env.wrapper_raises
      [] OTHER -> FALSE

\* ---------------------------------------------------------------- actions
NoCall ==
    [workflow_type |-> "none", config |-> EmptyDict, result |-> EmptyDict,
     attempts |-> 0,
     raised |-> "none", fault |-> FALSE, applied |-> FALSE,
     before |-> [leads |-> 0, leads_generated |-> 0,
                 total_workflows_executed |-> 0,
                 self |-> EmptyDict, env |-> EmptyDict, now |-> 0]]

Init ==
    /\ lead_scanner \in BOOLEAN
    /\ leads_database = EmptyDict
    /\ prospects_pipeline = EmptyDict
    /\ meetings_scheduled = << >>
    /\ metrics = DepartmentMetrics
    /\ now = 0
    /\ call = NoCall
    /\ hist = [calls |-> 0, duration_sum |-> 0]
    /\ tasks = << >>

\* The execution time an envelope reports (0 when it reports none).
ExecutionTime(result) == Get0(result, "execution_time")

\* One call of execute_workflow(config) in the environment env, the limit-th
\* call of the behaviour at most.  hist sums the execution times of the
\* workflows counted in total_workflows_executed.  With track, the call
\* records the department's state and the environment it started from.
Run(config, env, limit, track) ==
    /\ hist.calls < limit
    /\ \E r \in {execute_workflow(Self, config, env, now, 1, 1)} :
          /\ leads_database' = r.self.leads_database
          /\ prospects_pipeline' = r.self.prospects_pipeline
          /\ meetings_scheduled' = r.self.meetings_scheduled
          /\ metrics' = r.self.metrics
          /\ call' = [workflow_type |-> config.workflow_type,
                      config |-> config, result |-> r.result, attempts |-> r.attempts,
                      raised |-> r.raised,
                      fault |-> (env.escapes > 0
                                 \/ StageFault(config.workflow_type, env)),
                      applied |-> FALSE,
                      before |-> [leads |-> Cardinality(DOMAIN leads_database),
                                  leads_generated |-> metrics.leads_generated,
                                  total_workflows_executed |->
                                      metrics.total_workflows_executed,
                                  self |-> IF track THEN Self ELSE EmptyDict,
                                  env |-> IF track THEN env ELSE EmptyDict,
                                  now |-> IF track THEN now ELSE 0]]
          /\ hist' = [calls |-> hist.calls + 1,
                      duration_sum |->
                          hist.duration_sum
                          + (r.self.metrics.total_workflows_executed
                             - metrics.total_workflows_executed)
                            * ExecutionTime(r.result)]
    /\ UNCHANGED <<lead_scanner, now, tasks>>

Execute(config, env) == Run(config, env, MaxCalls, FALSE)

\* A call whose starting state is recorded.
Track(config, env) == Run(config, env, MaxSteps, TRUE)

WithEscapes(env, k) == [env EXCEPT !.escapes = k]

\* execute_workflow({"workflow_type": "lead_generation", "criteria": ..})
LeadGeneration(criterias, envs, escapes) ==
    \E criteria \in (IF lead_scanner THEN {EmptyDict} ELSE criterias),
       env \in envs, k \in escapes :
        Execute([workflow_type |-> "lead_generation", criteria |-> criteria],
                WithEscapes(env, k))

QuickWins(envs, escapes) ==
    \E env \in envs, k \in escapes :
        Execute([workflow_type |-> "quick_wins"], WithEscapes(env, k))

FullOutreach(envs, escapes) ==
    \E env \in envs, k \in escapes :
        Execute([workflow_type |-> "full_outreach"], WithEscapes(env, k))

\* lead_nurturing without lead_ids
LeadNurturing(envs, escapes) ==
    \E env \in envs, k \in escapes :
        Execute([workflow_type |-> "lead_nurturing"], WithEscapes(env, k))

\* lead_nurturing with the list lead_ids
LeadNurturingOf(lists, envs, escapes) ==
    \E lead_ids \in lists, env \in envs, k \in escapes :
        Execute([workflow_type |-> "lead_nurturing", lead_ids |-> lead_ids],
                WithEscapes(env, k))

MeetingScheduling(envs, escapes) ==
    \E env \in envs, k \in escapes :
        Execute([workflow_type |-> "meeting_scheduling"], WithEscapes(env, k))

PipelineReporting(envs, escapes) ==
    \E env \in envs, k \in escapes :
        Execute([workflow_type |-> "pipeline_reporting"], WithEscapes(env, k))

FullPipeline(criterias, envs, escapes) ==
    \E criteria \in (IF lead_scanner THEN {EmptyDict} ELSE criterias),
       env \in envs, k \in escapes :
        Execute([workflow_type |-> "full_pipeline", lead_criteria |-> criteria],
                WithEscapes(env, k))

UnknownWorkflow(escapes) ==
    \E k \in escapes :
        Execute([workflow_type |-> "unknown"], WithEscapes(DefaultEnv, k))

\* Discovery by the fallback generator.
Discover ==
    /\ ~lead_scanner
    /\ \E criteria \in LifecycleCriteria, env \in {DefaultEnv, SaveFails} :
          Track([workflow_type |-> "lead_generation", criteria |-> criteria], env)

\* Discovery by the provider, with a requested min_score.
ScanWithMinScore ==
    /\ lead_scanner
    /\ \E sc \in ScoredScans :
          Track([workflow_type |-> "lead_generation", min_score |-> 80,
                 max_results |-> MaxScan],
                [DefaultEnv EXCEPT !.scan = sc])

\* lead_nurturing of the whole store; items of the batch may raise, or
\* save_state may.
NurtureAll ==
    \E env \in ItemFaultEnvs \cup {SaveFails} :
        Track([workflow_type |-> "lead_nurturing"], env)

\* lead_nurturing of a batch that lists one lead id twice.
NurtureTwice ==
    \E id \in DOMAIN leads_database :
        Track([workflow_type |-> "lead_nurturing", lead_ids |-> <<id, id>>],
              DefaultEnv)

\* meeting_scheduling without a prospects list.
Schedule ==
    \E env \in {DefaultEnv, SaveFails} :
        Track([workflow_type |-> "meeting_scheduling"], env)

\* The caller applies update_metrics to the envelope the last call returned.
UpdateMetrics ==
    /\ call.workflow_type # "none"
    /\ call.raised = "none"
    /\ ~call.applied
    /\ metrics' = update_metrics(Self, call.workflow_type, call.result, now).metrics
    /\ call' = [call EXCEPT !.applied = TRUE]
    /\ hist' = [hist EXCEPT !.duration_sum = @ + ExecutionTime(call.result)]
    /\ UNCHANGED <<lead_scanner, leads_database, prospects_pipeline,
                   meetings_scheduled, now, tasks>>

\* Time passes between two calls.
Tick ==
    /\ now < MaxClock
    /\ now' = now + 1
    /\ UNCHANGED <<lead_scanner, leads_database, prospects_pipeline,
                   meetings_scheduled, metrics, call, hist, tasks>>

\* Discovery with the generators' defaults.
DiscoverDefault ==
    \E config \in DefaultRequests,
       env \in (IF lead_scanner
                THEN {[DefaultEnv EXCEPT !.scan = sc] : sc \in LongScans}
                ELSE {DefaultEnv}) :
        Track(config, env)

\* lead_nurturing of the first lead of a discovery, listed twice.
NurtureFirst ==
    \E id \in {i \in DOMAIN leads_database : i[2] = 0} :
        Track([workflow_type |-> "lead_nurturing", lead_ids |-> <<id, id>>],
              DefaultEnv)

\* meeting_scheduling with a prospects list.
ScheduleFor ==
    \E prospects \in ProspectLists :
        Track([workflow_type |-> "meeting_scheduling", prospects |-> prospects],
              DefaultEnv)

\* pipeline_reporting
Report ==
    \E env \in ReportEnvs :
        Track([workflow_type |-> "pipeline_reporting"], env)

\* get_status()
GetStatus ==
    \E raises \in BOOLEAN :
        \E r \in {get_status(Self, raises)} :
            /\ leads_database' = r.self.leads_database
            /\ prospects_pipeline' = r.self.prospects_pipeline
            /\ meetings_scheduled' = r.self.meetings_scheduled
            /\ metrics' = r.self.metrics
            /\ call' = [NoCall EXCEPT
                           !.workflow_type = "get_status",
                           !.result = r.result,
                           !.before.self = Self,
                           !.before.now = now]
            /\ UNCHANGED <<lead_scanner, now, hist, tasks>>

\* Concurrent calls.  The class holds no lock: a coroutine runs alone from one
\* suspension point to the next, and another coroutine may run while it is
\* suspended.  The coroutines of this class suspend in their collaborators
\* (save_state, the scanner, the composer, Redis); every stage executor
\* changes the store before its last suspension point and not after it, so
\* the stretch a coroutine runs alone is one stage: a full_pipeline call has
\* four, any other call one.
Stages(config) == IF config.workflow_type = "full_pipeline" THEN 4 ELSE 1

\* The environment of a concurrent call: nothing raises.
TaskEnv(config) ==
    IF config.workflow_type = "full_pipeline"
    THEN [lead_generation |-> DefaultEnv, lead_nurturing |-> DefaultEnv,
          meeting_scheduling |-> DefaultEnv, pipeline_reporting |-> DefaultEnv,
          escapes |-> 0]
    ELSE DefaultEnv

\* A coroutine that has not run yet.
NewTask(config) ==
    [config |-> config, stage |-> 1,
     result |-> IF config.workflow_type = "full_pipeline"
                THEN [success |-> TRUE, workflow_type |-> "full_pipeline",
                      stages_completed |-> << >>]
                ELSE EmptyDict]

\* No coroutine is suspended: every call made has returned.
Idle == \A i \in DOMAIN tasks : tasks[i].stage > Stages(tasks[i].config)

\* The next stage of the coroutine task, run on the store self at time t:
\* [self, result].
Resume(task, self, t) ==
    IF task.config.workflow_type = "full_pipeline"
    THEN LET p == [self |-> self, result |-> task.result]
             env == TaskEnv(task.config)
         IN  CASE task.stage = 1 -> Stage1(p, task.config, env, t)
               [] task.stage = 2 -> Stage2(p, task.config, env, t)
               [] task.stage = 3 -> Stage3(p, task.config, env, t)
               [] OTHER -> Stage4(p, task.config, env, t)
    ELSE Dispatch(self, task.config, TaskEnv(task.config), t)

\* asyncio.gather(execute_workflow(a), execute_workflow(b)): two calls are
\* started on the same department.
Gather ==
    \E a, b \in ConcurrentRequests :
        /\ Idle
        /\ hist.calls + 2 <= MaxSteps
        /\ tasks' = <<NewTask(a), NewTask(b)>>
        /\ call' = [NoCall EXCEPT !.workflow_type = "gather",
                                  !.before.self = Self,
                                  !.before.now = now]
        /\ hist' = [hist EXCEPT !.calls = @ + 2]
        /\ UNCHANGED <<lead_scanner, leads_database, prospects_pipeline,
                       meetings_scheduled, metrics, now>>

\* The event loop resumes one of the coroutines, which runs its next stage.
Step ==
    \E i \in DOMAIN tasks :
        /\ tasks[i].stage <= Stages(tasks[i].config)
        /\ \E r \in {Resume(tasks[i], Self, now)} :
              /\ leads_database' = r.self.leads_database
              /\ prospects_pipeline' = r.self.prospects_pipeline
              /\ meetings_scheduled' = r.self.meetings_scheduled
              /\ metrics' = r.self.metrics
              /\ tasks' = [tasks EXCEPT ![i].stage = @ + 1,
                                        ![i].result = r.result]
        /\ UNCHANGED <<lead_scanner, now, call, hist>>

\* full_outreach campaigns, each recorded with the state it started from.
Campaign ==
    \E env \in OutreachEnvs(ComposeOutcomes, {1}) :
        Run([workflow_type |-> "full_outreach"], env, MaxCalls, TRUE)

\* Calls made one after the other in which nothing raises, up to MaxRounds of
\* them: discovery, nurture of the whole store or of one lead listed twice,
\* and meeting_scheduling without a prospects list.
Sequenced(config) == Run(config, DefaultEnv, MaxRounds, TRUE)

Find ==
    /\ ~lead_scanner
    /\ \E criteria \in LifecycleCriteria :
          Sequenced([workflow_type |-> "lead_generation", criteria |-> criteria])

Nurture == Sequenced([workflow_type |-> "lead_nurturing"])

NurtureListed ==
    \E id \in DOMAIN leads_database :
        Sequenced([workflow_type |-> "lead_nurturing", lead_ids |-> <<id, id>>])

Book == Sequenced([workflow_type |-> "meeting_scheduling"])

\* _calculate_lead_score(lead_data), called on its own.
Score ==
    \E lead_data \in LeadData :
        /\ call' = [NoCall EXCEPT
                       !.workflow_type = "_calculate_lead_score",
                       !.config = lead_data,
                       !.result = [score |-> _calculate_lead_score(lead_data)]]
        /\ UNCHANGED <<lead_scanner, leads_database, prospects_pipeline,
                       meetings_scheduled, metrics, now, hist, tasks>>

\* ---------------------------------------------------------- specifications
\* Every workflow, each with its stage-level faults, and with faults that
\* escape the dispatch of execute_workflow.
Escapes == 0..MaxEscapes

NoPipelineFaults ==
    PipelineEnvs(GenEnvs({1}), {DefaultEnv}, {DefaultEnv}, {DefaultEnv})

\* compose_outreach raises, or returns a message.
ComposeOrFail == {c \in ComposeOutcomes : ~c.ok \/ c.personalization_score = 85}

Next ==
    \/ LeadGeneration(DefaultCriteria, GenEnvs({1}), Escapes)
    \/ QuickWins(OutreachEnvs(ComposeOutcomes, {1}), Escapes)
    \/ FullOutreach(OutreachEnvs(ComposeOutcomes, {1}), Escapes)
    \/ LeadNurturing(StageEnvs, Escapes)
    \/ MeetingScheduling(StageEnvs, Escapes)
    \/ PipelineReporting(ReportEnvs, Escapes)
    \/ FullPipeline(DefaultCriteria, NoPipelineFaults, Escapes)
    \/ UnknownWorkflow(Escapes)

Spec == Init /\ [][Next]_vars

\* The pipeline: discovery, nurture and full_pipeline runs with every
\* combination of stage failures, at different clock times.
NextPipeline ==
    \/ LeadGeneration(CriteriaChoices, GenEnvs({1}), {0})
    \/ LeadNurturing({DefaultEnv}, {0})
    \/ LeadNurturingOf({<< >>}, {DefaultEnv}, {0})
    \/ FullPipeline(DefaultCriteria,
                    PipelineEnvs(GenEnvs({1}), FailOrNot, FailOrNot, ReportEnvs), {0})
    \/ Tick

SpecPipeline == Init /\ [][NextPipeline]_vars

\* The metrics: every workflow, with the faults that decide what is counted,
\* and update_metrics applied to the envelopes.
NextMetrics ==
    \/ LeadGeneration(DefaultCriteria, LeadGenEnvs, {0})
    \/ QuickWins(OutreachEnvs(ComposeOrFail, {1}), {0})
    \/ FullOutreach(OutreachEnvs(ComposeOrFail, {1}), {0})
    \/ LeadNurturing({DefaultEnv}, {0})
    \/ MeetingScheduling({DefaultEnv}, {0})
    \/ PipelineReporting({DefaultEnv}, {0})
    \/ FullPipeline(DefaultCriteria, NoPipelineFaults, {0})
    \/ UnknownWorkflow({0})
    \/ UpdateMetrics

SpecMetrics == Init /\ [][NextMetrics]_vars

\* The lifecycle of leads, prospects and meetings: discovery, nurture and
\* scheduling calls, each recorded with the state it started from.
NextLifecycle ==
    \/ Discover
    \/ ScanWithMinScore
    \/ NurtureAll
    \/ NurtureTwice
    \/ Schedule
    \/ Tick

SpecLifecycle == Init /\ [][NextLifecycle]_vars

\* The scoring function on its own, over the lead attributes of LeadData.
NextScoring == Score

SpecScoring == Init /\ [][NextScoring]_vars

\* Reports: the store is filled by discovery with the generators' defaults,
\* one nurtured lead and scheduling requests, and read by pipeline_reporting
\* and get_status.
NextReport ==
    \/ DiscoverDefault
    \/ NurtureFirst
    \/ Schedule
    \/ ScheduleFor
    \/ Report
    \/ GetStatus

SpecReport == Init /\ [][NextReport]_vars

\* Concurrency: the store is filled by discovery and nurture calls made one
\* at a time, then two calls run concurrently.
NextConcurrent ==
    \/ Idle /\ Discover
    \/ Idle /\ NurtureAll
    \/ Idle /\ Tick
    \/ Gather
    \/ Step

SpecConcurrent == Init /\ [][NextConcurrent]_vars

\* Outreach: campaigns one after the other.
NextOutreach == Campaign

SpecOutreach == Init /\ [][NextOutreach]_vars

\* Booking: discovery, nurture and default scheduling calls in any order.
NextBooking ==
    \/ Find
    \/ Nurture
    \/ NurtureListed
    \/ Book
    \/ Tick

SpecBooking == Init /\ [][NextBooking]_vars

\* ------------------------------------------------------------------ claims
PipelineStages ==
    <<"lead_generation", "lead_nurturing", "meeting_scheduling", "pipeline_reporting">>

PipelineKeys ==
    {"lead_generation", "lead_nurturing", "meeting_scheduling", "pipeline_report"}

\* C1: a full_pipeline run completes its four stages in the fixed order
\* lead_generation, lead_nurturing, meeting_scheduling, pipeline_reporting,
\* whichever of them fail, and its envelope holds one result (an envelope
\* with a success flag) for each of the four; a report that was produced
\* counts the leads the discovery stage of the same run stored.
C1_PipelineRunsFourStages ==
    call.workflow_type = "full_pipeline" =>
        /\ call.result.stages_completed = PipelineStages
        /\ PipelineKeys \subseteq DOMAIN call.result
        /\ \A key \in PipelineKeys : "success" \in DOMAIN call.result[key]
        /\ (call.result.pipeline_report.success
            /\ "summary" \in DOMAIN call.result.pipeline_report.report)
           => call.result.pipeline_report.report.summary.total_leads
              = Cardinality(DOMAIN leads_database)

\* A full_pipeline run whose nurture stage failed and whose later stages ran:
\* the report counts leads stored by the discovery stage of the run.
C1_Witness ==
    /\ call.workflow_type = "full_pipeline"
    /\ ~call.result.lead_nurturing.success
    /\ call.result.meeting_scheduling.success
    /\ call.result.pipeline_report.success
    /\ "summary" \in DOMAIN call.result.pipeline_report.report
    /\ call.result.pipeline_report.report.summary.total_leads > call.before.leads

\* C2: a lead_nurturing call given the empty list lead_ids = [] nurtures every
\* lead of the store, as a call without lead_ids does.
C2_EmptyLeadIdsNurturesAll ==
    (/\ call.workflow_type = "lead_nurturing"
     /\ "lead_ids" \in DOMAIN call.config
     /\ call.config.lead_ids = << >>)
    => call.result.nurturing_results.leads_contacted
       = Cardinality(DOMAIN leads_database)

\* C3: a successful lead_generation call makes the store grow by exactly the
\* leads_found of its envelope.
C3_StoreGrowsByLeadsFound ==
    (call.workflow_type = "lead_generation" /\ call.result.success)
    => Cardinality(DOMAIN leads_database) - call.before.leads
       = call.result.leads_found

\* C4: a call during which a fault was raised (in the dispatch or in the
\* stage) returns an envelope with success = false, error, error_type and
\* workflow_type, and raises nothing.
C4_FaultGivesFailureEnvelope ==
    (call.workflow_type # "none" /\ call.fault)
    => /\ call.raised = "none"
       /\ {"success", "error", "error_type", "workflow_type"}
              \subseteq DOMAIN call.result
       /\ ~call.result.success

\* C5: one call of execute_workflow dispatches the workflow at most once.
C5_NoRetry == call.attempts <= 1

\* C6: every envelope carries success and workflow_type, and every envelope
\* with success = false carries error and error_type.
C6_EnvelopeFields ==
    (call.workflow_type # "none" /\ call.raised = "none")
    => /\ {"success", "workflow_type"} \subseteq DOMAIN call.result
       /\ ~call.result.success
          => {"error", "error_type"} \subseteq DOMAIN call.result

\* C7: when execute_workflow returns from a workflow other than
\* full_pipeline, total_workflows_executed has grown by exactly one.
C7_CountsEveryInvocation ==
    (call.workflow_type \notin {"none", "full_pipeline"} /\ ~call.applied)
    => metrics.total_workflows_executed
       = call.before.total_workflows_executed + 1

\* C8: average_execution_time is the mean of the execution times of the
\* workflows counted in total_workflows_executed (average * n = sum).
C8_AverageIsMean ==
    metrics.average_execution_time[1] * metrics.total_workflows_executed
    = hist.duration_sum * metrics.average_execution_time[2]

Counters ==
    {"leads_generated", "leads_qualified", "messages_composed", "emails_sent",
     "meetings_booked", "total_workflows_executed"}

\* C9: no step (a workflow or update_metrics) decreases one of the counters
\* leads_generated, leads_qualified, messages_composed, emails_sent,
\* meetings_booked, total_workflows_executed.
C9_CountersNeverDecrease ==
    [][\A c \in Counters : metrics'[c] >= metrics[c]]_vars

\* update_metrics has been applied to the envelope of a second workflow, and
\* counters have grown in the stage and in update_metrics.
C9_Witness ==
    /\ call.applied
    /\ metrics.total_workflows_executed >= 3
    /\ metrics.leads_generated > 0
    /\ metrics.leads_qualified > 0
    /\ metrics.messages_composed > 0

\* C10: once a successful lead_generation has returned and update_metrics
\* has been applied to its envelope, leads_generated has grown by exactly
\* leads_found.
C10_LeadsGeneratedCountedOnce ==
    (/\ call.workflow_type = "lead_generation"
     /\ call.result.success
     /\ call.applied)
    => metrics.leads_generated - call.before.leads_generated
       = call.result.leads_found

\* What the last call started from (calls of SpecLifecycle record it).
Before == call.before.self

StartedAt == call.before.now

Env == call.before.env

\* C11: the store holds a Prospect under a lead id exactly if the Lead under
\* that id has score > 7 and contact_attempts >= 2.  (A Lead's score never
\* changes and its contact_attempts never decrease, so a Lead that does not
\* meet both conditions now has never met them.)
C11_ProspectIffThreshold ==
    \A id \in DOMAIN leads_database \cup DOMAIN prospects_pipeline :
        id \in DOMAIN prospects_pipeline
        <=> /\ id \in DOMAIN leads_database
            /\ leads_database[id].score > 7
            /\ leads_database[id].contact_attempts >= 2

\* C12: every lead with score >= 7 (7 included) that nurture has processed
\* twice, so that it has contact_attempts >= 2, has a Prospect.
C12_ThresholdIncludesSeven ==
    \A id \in DOMAIN leads_database :
        (leads_database[id].score >= 7 /\ leads_database[id].contact_attempts >= 2)
        => id \in DOMAIN prospects_pipeline

\* C13: the store holds at most one Prospect per lead id: every Prospect is
\* stored under the id of its lead, and no two entries are of the same lead.
C13_OneProspectPerLead ==
    /\ \A p \in DOMAIN prospects_pipeline : prospects_pipeline[p].lead = p
    /\ \A p, q \in DOMAIN prospects_pipeline :
           prospects_pipeline[p].lead = prospects_pipeline[q].lead => p = q

\* A batch that lists a lead twice has qualified it twice, the lead being a
\* Prospect already before the call, and the store holds one entry for it.
C13_Witness ==
    /\ call.workflow_type = "lead_nurturing"
    /\ "lead_ids" \in DOMAIN call.config
    /\ call.result.nurturing_results.prospects_qualified = 2
    /\ call.config.lead_ids[1] \in DOMAIN Before.prospects_pipeline
    /\ Cardinality(DOMAIN prospects_pipeline) = 1

Rank(status) ==
    CASE status = "new" -> 0
      [] status = "contacted" -> 1
      [] status = "qualified" -> 2
      [] OTHER -> -1

\* C14: every status in the store is new, contacted or qualified (never
\* dead), and over a call the status under a lead id stays or advances along
\* new -> contacted -> qualified: the lead id is kept, and a qualified one
\* stays qualified.
C14_StatusOnlyAdvances ==
    /\ \A id \in DOMAIN leads_database : Rank(leads_database[id].status) >= 0
    /\ call.workflow_type # "none"
       => \A id \in DOMAIN Before.leads_database :
              /\ id \in DOMAIN leads_database
              /\ Rank(leads_database[id].status)
                 >= Rank(Before.leads_database[id].status)

\* C15: a discovery call leaves every Lead record that was in the store as
\* it was, and in fallback mode adds one new record per lead it creates.
C15_DiscoveryKeepsEarlierLeads ==
    call.workflow_type = "lead_generation" =>
        /\ \A id \in DOMAIN Before.leads_database :
               /\ id \in DOMAIN leads_database
               /\ leads_database[id] = Before.leads_database[id]
        /\ ~lead_scanner
           => Cardinality(DOMAIN leads_database)
              = Cardinality(DOMAIN Before.leads_database)
                + call.config.criteria.max_leads

\* The batch of the last lead_nurturing call, the positions of its failing
\* items, and the batch without them.
Batch == Filter(LeadIds(Before, call.config), DOMAIN Before.leads_database)

Failing == {i \in 1..Len(Batch) : i \in Env.item_faults}

RECURSIVE Without(_, _, _)
Without(seq, i, positions) ==
    IF i > Len(seq) THEN << >>
    ELSE (IF i \in positions THEN << >> ELSE <<seq[i]>>)
         \o Without(seq, i + 1, positions)

RECURSIVE Only(_, _, _)
Only(seq, i, positions) ==
    IF i > Len(seq) THEN << >>
    ELSE (IF i \in positions THEN <<seq[i]>> ELSE << >>)
         \o Only(seq, i + 1, positions)

\* C16: in a nurture batch where the items at some positions raise, the
\* result holds one error entry per failing item, leads_contacted is the
\* batch size minus the number of failing items, and the leads and prospects
\* are left as by the batch of the other items alone.
C16_ItemErrorsAreIsolated ==
    (call.workflow_type = "lead_nurturing" /\ ~Env.save_fails) =>
        /\ call.result.nurturing_results.errors = Only(Batch, 1, Failing)
        /\ call.result.nurturing_results.leads_contacted
           = Len(Batch) - Cardinality(Failing)
        /\ Self = nurture_prospects(Before, Without(Batch, 1, Failing),
                                    StartedAt, DefaultEnv).self

\* A batch with a failing item and an item that was processed.
C16_Witness ==
    /\ call.workflow_type = "lead_nurturing"
    /\ ~Env.save_fails
    /\ Failing # {}
    /\ Len(call.result.nurturing_results.errors) >= 1
    /\ call.result.nurturing_results.leads_contacted >= 1
    /\ \E id \in DOMAIN leads_database :
           leads_database[id].contact_attempts
           # Before.leads_database[id].contact_attempts

\* The prospects without a meeting when the last call started, and the
\* meetings the call appended.
Pending ==
    {pid \in DOMAIN Before.prospects_pipeline :
         ~Before.prospects_pipeline[pid].meeting_scheduled}

NewMeetings ==
    SubSeq(meetings_scheduled, Len(Before.meetings_scheduled) + 1,
           Len(meetings_scheduled))

Retained == {k \in 1..Len(Env.scan) : Env.scan[k] >= call.config.min_score}

\* C18: a lead_generation call with a min_score keeps the provider's leads
\* with score >= min_score only: leads_found and the growth of
\* leads_generated both equal their number.
C18_MinScoreFilters ==
    (/\ call.workflow_type = "lead_generation"
     /\ "min_score" \in DOMAIN call.config
     /\ call.result.success)
    => /\ call.result.leads_found = Cardinality(Retained)
       /\ metrics.leads_generated - call.before.leads_generated
          = Cardinality(Retained)

\* C19: a discovery, nurture or scheduling call during which the state save
\* fails returns the result, and leaves the store, that the same call gives
\* when the save succeeds.
C19_SaveFailureChangesNothing ==
    (call.workflow_type # "none" /\ Env.save_fails) =>
        \E ok \in {execute_workflow(Before, call.config,
                                    [Env EXCEPT !.save_fails = FALSE],
                                    StartedAt, 1, 1)} :
            /\ call.result = ok.result
            /\ Self = ok.self

\* The stage executor's result stored under key is a stage-level failure.
StageFailed(result, key) ==
    /\ key \in DOMAIN result
    /\ "success" \in DOMAIN result[key]
    /\ ~result[key].success

StageResultKey ==
    [lead_nurturing |-> "nurturing_results",
     meeting_scheduling |-> "scheduling_results",
     pipeline_reporting |-> "report"]

PipelineKey ==
    [lead_nurturing |-> "lead_nurturing",
     meeting_scheduling |-> "meeting_scheduling",
     pipeline_reporting |-> "pipeline_report"]

\* C20: when the nurture, scheduling or reporting stage executor returns a
\* stage-level failure, the envelope of its workflow has success = false, and
\* so has the stage's entry in a full_pipeline envelope.
C20_StageFailureFailsEnvelope ==
    /\ \A w \in DOMAIN StageResultKey :
           (call.workflow_type = w /\ StageFailed(call.result, StageResultKey[w]))
           => ~call.result.success
    /\ call.workflow_type = "full_pipeline"
       => \A w \in DOMAIN StageResultKey :
              (/\ PipelineKey[w] \in DOMAIN call.result
               /\ StageFailed(call.result[PipelineKey[w]], StageResultKey[w]))
              => ~call.result[PipelineKey[w]].success

\* Whether one of the tokens occurs in the lower-cased attribute string s.
Mentions(s, tokens) == Lower(s) \cap tokens # {}

\* The bonus of the first size token of the scoring table that s contains.
SizeBonus(s) ==
    IF Mentions(s, {"startup"}) THEN 5
    ELSE IF Mentions(s, {"enterprise"}) THEN 10
    ELSE IF Mentions(s, {"mid-market"}) THEN 8
    ELSE 0

\* C23: _calculate_lead_score returns min(10, 5 + 2 for a title keyword + the
\* bonus of the first recognised size token + 3 for an industry token), each
\* bonus once; the value is a function of title, company_size and industry
\* alone, and is one of 5, 7, 8, 10.
C23_ScoreFormula ==
    call.workflow_type = "_calculate_lead_score" =>
        LET d == call.config
            expected ==
                5 + (IF Mentions(d.title, {"ceo", "cto", "vp", "director",
                                           "manager", "head"}) THEN 2 ELSE 0)
                  + SizeBonus(d.company_size)
                  + (IF Mentions(d.industry, {"saas", "technology", "software",
                                              "fintech"}) THEN 3 ELSE 0)
        IN  /\ call.result.score = Min(10, expected)
            /\ call.result.score \in {5, 7, 8, 10}

\* A lead with a title keyword, two size tokens and two industry tokens: the
\* sum 5 + 2 + 10 + 3 is capped at 10.
C23_Witness ==
    /\ call.workflow_type = "_calculate_lead_score"
    /\ call.config.title = "Director"
    /\ call.config.company_size = "Mid-Market Enterprise"
    /\ call.config.industry = "Fintech Software"
    /\ call.result.score = 10

\* The nurture call returned the counters of nurture_prospects.
Nurtured ==
    /\ call.workflow_type = "lead_nurturing"
    /\ call.result.success
    /\ "emails_sent" \in DOMAIN call.result.nurturing_results

\* The sum of contact_attempts over the leads ids of the store db.
RECURSIVE ContactAttempts(_, _)
ContactAttempts(db, ids) ==
    IF ids = {} THEN 0
    ELSE LET x == CHOOSE y \in ids : TRUE
         IN  db[x].contact_attempts + ContactAttempts(db, ids \ {x})

\* C24: for each lead a nurture call processes without error: a new lead gets
\* one message, contact_attempts + 1 and status contacted; a contacted lead
\* with fewer than 3 attempts gets one follow-up and contact_attempts + 1; any
\* other lead gets no message and keeps its contact_attempts.  emails_sent is
\* the total increase of contact_attempts over the batch.
C24_OutreachPerLead ==
    Nurtured =>
        /\ call.result.nurturing_results.emails_sent =
               ContactAttempts(leads_database, DOMAIN leads_database)
               - ContactAttempts(Before.leads_database, DOMAIN Before.leads_database)
        /\ "lead_ids" \notin DOMAIN call.config =>
               \A i \in (1..Len(Batch)) \ Failing :
                   LET b == Before.leads_database[Batch[i]]
                       a == leads_database[Batch[i]]
                   IN  CASE b.status = "new" ->
                                /\ a.notes = b.notes + 1
                                /\ a.contact_attempts = b.contact_attempts + 1
                                /\ a.status = "contacted"
                         [] b.status = "contacted" /\ b.contact_attempts < 3 ->
                                /\ a.notes = b.notes + 1
                                /\ a.contact_attempts = b.contact_attempts + 1
                         [] OTHER ->
                                /\ a.notes = b.notes
                                /\ a.contact_attempts = b.contact_attempts

\* A nurture call over a store with a new lead and a contacted lead that has
\* had 3 attempts: one message is sent.
C24_Witness ==
    /\ Nurtured
    /\ "lead_ids" \notin DOMAIN call.config
    /\ Failing = {}
    /\ \E x, y \in DOMAIN Before.leads_database :
          /\ Before.leads_database[x].status = "new"
          /\ Before.leads_database[y].status = "contacted"
          /\ Before.leads_database[y].contact_attempts = 3
          /\ leads_database[y].contact_attempts = 3
    /\ call.result.nurturing_results.emails_sent = 1

\* C25: prospects_qualified of a nurture call is the number of leads the call
\* newly qualified (no Prospect before the call, one after it); a lead that
\* was qualified before is not counted again.
C25_CountsNewlyQualified ==
    Nurtured =>
        call.result.nurturing_results.prospects_qualified =
            Cardinality(DOMAIN prospects_pipeline \ DOMAIN Before.prospects_pipeline)

\* C26: after update_metrics(workflow_type, results), success_rate is
\* 1 / total_workflows_executed when results.success is true, and 0 otherwise.
C26_SuccessRateOfLastResult ==
    call.applied =>
        metrics.success_rate =
            IF "success" \in DOMAIN call.result /\ call.result.success
            THEN <<1, metrics.total_workflows_executed>>
            ELSE <<0, 1>>

\* update_metrics was applied to a successful envelope when two workflows had
\* been counted: the rate is 1/2.
C26_Witness ==
    /\ call.applied
    /\ call.result.success
    /\ metrics.total_workflows_executed = 2
    /\ metrics.success_rate = <<1, 2>>

\* The call was a pipeline_reporting request in which nothing raised.
Reported ==
    /\ call.workflow_type = "pipeline_reporting"
    /\ ~Env.wrapper_raises
    /\ ~Env.report_raises

\* C22: a pipeline report on a store with zero leads returns a success
\* envelope with lead_to_prospect_conversion = 0 and
\* lead_to_meeting_conversion = 0, also when the store holds meetings (for
\* unknown prospect ids) and no leads.
C22_EmptyStoreReport ==
    (Reported /\ DOMAIN Before.leads_database = {}) =>
        /\ call.result.success
        /\ "summary" \in DOMAIN call.result.report
        /\ call.result.report.summary.lead_to_prospect_conversion = <<0, 1>>
        /\ call.result.report.summary.lead_to_meeting_conversion = <<0, 1>>

\* A report on a store that holds a meeting and no lead.
C22_Witness ==
    /\ Reported
    /\ DOMAIN Before.leads_database = {}
    /\ Len(Before.meetings_scheduled) > 0
    /\ call.result.report.summary.total_meetings > 0
    /\ call.result.report.summary.lead_to_meeting_conversion = <<0, 1>>

\* The scheduling call was given a prospects list and returned the counters
\* of schedule_meetings.
ScheduledFor ==
    /\ call.workflow_type = "meeting_scheduling"
    /\ "prospects" \in DOMAIN call.config
    /\ call.result.success
    /\ "meetings_requested" \in DOMAIN call.result.scheduling_results

\* The positions of the prospects list whose prospect_id named no Prospect
\* when the call started.
UnknownEntries ==
    {i \in 1..Len(call.config.prospects) :
        call.config.prospects[i].prospect_id \notin DOMAIN Before.prospects_pipeline}

\* C27: a scheduling entry whose prospect_id names no Prospect still appends
\* a meeting for that id and counts as requested and confirmed, and it
\* changes no Prospect.
C27_UnknownProspectStillScheduled ==
    ScheduledFor =>
        LET prospects == call.config.prospects
            n == Len(Before.meetings_scheduled)
            results == call.result.scheduling_results
        IN  /\ results.meetings_requested = Len(prospects)
            /\ results.meetings_confirmed = Len(prospects)
            /\ Len(meetings_scheduled) = n + Len(prospects)
            /\ \A i \in UnknownEntries :
                   /\ meetings_scheduled[n + i].prospect_id = prospects[i].prospect_id
                   /\ meetings_scheduled[n + i].status = "confirmed"
            /\ DOMAIN prospects_pipeline = DOMAIN Before.prospects_pipeline
            /\ \A pid \in DOMAIN prospects_pipeline :
                   (\A i \in 1..Len(prospects) : prospects[i].prospect_id # pid)
                       => prospects_pipeline[pid] = Before.prospects_pipeline[pid]

\* A list with an entry for a Prospect and an entry for an unknown id: two
\* meetings are appended and only the named Prospect changes.
C27_Witness ==
    /\ ScheduledFor
    /\ UnknownEntries # {}
    /\ UnknownEntries # 1..Len(call.config.prospects)
    /\ Len(meetings_scheduled) = Len(Before.meetings_scheduled) + 2
    /\ call.result.scheduling_results.meetings_confirmed = 2
    /\ prospects_pipeline # Before.prospects_pipeline

\* C28: the pipeline_reporting workflow and get_status read only: Leads,
\* Prospects, meetings and Metrics are the same before and after them.
C28_ReportsReadOnly ==
    call.workflow_type \in {"pipeline_reporting", "get_status"} => Self = Before

\* A report was made of a store that holds leads, a Prospect and a meeting.
C28_Witness ==
    /\ Reported
    /\ DOMAIN Before.leads_database # {}
    /\ DOMAIN Before.prospects_pipeline # {}
    /\ Before.meetings_scheduled # << >>
    /\ call.result.report.summary.total_leads = Cardinality(DOMAIN leads_database)
    /\ Self = Before

\* The recommendations of the report, as a set.
Recommendations ==
    {call.result.report.recommendations[i] :
        i \in 1..Len(call.result.report.recommendations)}

\* C29: the recommendation list of a report is never empty; it holds the
\* lead-generation message iff the store has fewer than 10 leads, the
\* qualification message iff it has no Prospect, the scheduling message iff it
\* has no meeting, and the single default message iff none of the three holds.
C29_Recommendations ==
    Reported =>
        LET few == Cardinality(DOMAIN Before.leads_database) < 10
            unqualified == DOMAIN Before.prospects_pipeline = {}
            unscheduled == Before.meetings_scheduled = << >>
        IN  /\ "recommendations" \in DOMAIN call.result.report
            /\ Recommendations # {}
            /\ "Increase lead generation activity" \in Recommendations <=> few
            /\ "Focus on lead qualification" \in Recommendations <=> unqualified
            /\ "Prioritize meeting scheduling" \in Recommendations <=> unscheduled
            /\ call.result.report.recommendations = <<"Pipeline is performing well">>
                   <=> ~(few \/ unqualified \/ unscheduled)
            /\ "Pipeline is performing well" \in Recommendations
                   => Len(call.result.report.recommendations) = 1

\* A report of a store with exactly 10 leads, a Prospect and a meeting gives
\* the default message alone.
C29_Witness ==
    /\ Reported
    /\ Cardinality(DOMAIN Before.leads_database) = 10
    /\ DOMAIN Before.prospects_pipeline # {}
    /\ Before.meetings_scheduled # << >>
    /\ call.result.report.recommendations = <<"Pipeline is performing well">>

\* C30: the leads preview of a successful lead_generation envelope holds
\* min(leads_found, 10) leads, never more than 10, in provider mode and in
\* fallback mode.
C30_PreviewCappedAtTen ==
    (/\ call.workflow_type = "lead_generation"
     /\ call.raised = "none"
     /\ call.result.success) =>
        Len(call.result.leads) = Min(call.result.leads_found, 10)

\* The store and metrics after the call first and then the call second, run
\* one after the other from the state the concurrent calls started in.
Serial(first, second) ==
    Dispatch(Dispatch(Before, first, TaskEnv(first), StartedAt).self,
             second, TaskEnv(second), StartedAt).self

\* C21: two execute_workflow calls made concurrently on one department are
\* serialized: when both have returned, the store and the metrics are those
\* of running the two calls one after the other in some order.
C21_ConcurrentCallsSerialized ==
    (call.workflow_type = "gather" /\ Idle) =>
        Self \in {Serial(tasks[1].config, tasks[2].config),
                  Serial(tasks[2].config, tasks[1].config)}

\* The leads of the campaign for which compose_outreach returned a message.
ComposedFor == {k \in 1..Len(Env.scan) : Env.compose[k].ok}

\* The sum of the field f of the messages composed for the leads ks.
RECURSIVE Total(_, _, _)
Total(compose, ks, f) ==
    IF ks = {} THEN 0
    ELSE LET k == CHOOSE j \in ks : TRUE
         IN  compose[k][f] + Total(compose, ks \ {k}, f)

\* C31: a full_outreach run that finds n >= 1 leads and composes m of the n
\* messages raises leads_qualified by n and messages_composed by m, and sets
\* personalization_score and response_rate to the averages over the m
\* messages of this campaign (0 when m = 0); a composition failure for one
\* lead does not stop composition for the others.
C31_CampaignMetrics ==
    (/\ call.workflow_type = "full_outreach"
     /\ lead_scanner
     /\ ~Env.scan_raises
     /\ Len(Env.scan) >= 1) =>
        LET n == Len(Env.scan)
            m == Cardinality(ComposedFor)
        IN  /\ call.result.success
            /\ call.result.campaign_summary.leads_found = n
            /\ call.result.campaign_summary.messages_generated = m
            /\ metrics.leads_qualified = Before.metrics.leads_qualified + n
            /\ metrics.messages_composed = Before.metrics.messages_composed + m
            /\ metrics.personalization_score[1] * m =
                   Total(Env.compose, ComposedFor, "personalization_score")
                   * metrics.personalization_score[2]
            /\ metrics.response_rate[1] * m =
                   Total(Env.compose, ComposedFor, "predicted_response_rate")
                   * metrics.response_rate[2]
            /\ m = 0 => /\ metrics.personalization_score = <<0, 1>>
                        /\ metrics.response_rate = <<0, 1>>

\* A second campaign in which the composition for the first lead fails and
\* the one for the second succeeds: the averages are those of that message,
\* not those the campaign before had left.
C31_Witness ==
    /\ call.workflow_type = "full_outreach"
    /\ lead_scanner
    /\ Len(Env.scan) = 2
    /\ ComposedFor = {2}
    /\ Before.metrics.personalization_score = <<85, 1>>
    /\ metrics.personalization_score = <<60, 1>>
    /\ metrics.messages_composed = Before.metrics.messages_composed + 1

\* C32: every stored lead satisfies: status new implies contact_attempts = 0;
\* status contacted implies 1 <= contact_attempts <= 3; status qualified
\* implies score > 7 and contact_attempts = 2; no lead is sent more than 3
\* messages.
C32_LeadStatusAndAttempts ==
    \A id \in DOMAIN leads_database :
        LET lead == leads_database[id]
        IN  /\ lead.status = "new" => lead.contact_attempts = 0
            /\ lead.status = "contacted" =>
                   lead.contact_attempts >= 1 /\ lead.contact_attempts <= 3
            /\ lead.status = "qualified" =>
                   lead.score > 7 /\ lead.contact_attempts = 2
            /\ lead.notes <= 3

\* A contacted lead has had 3 messages and the nurture call that just ran
\* over it sent it none, and another lead is qualified.
C32_Witness ==
    /\ Nurtured
    /\ call.result.nurturing_results.leads_contacted > 0
    /\ \E x, y \in DOMAIN leads_database :
          /\ leads_database[x].status = "contacted"
          /\ leads_database[x].notes = 3
          /\ Before.leads_database[x].notes = 3
          /\ leads_database[y].status = "qualified"

\* C33: the store holds a Prospect under id L if and only if a lead with id L
\* is in the store with status qualified; the number of prospects never
\* exceeds the number of leads.
C33_ProspectIffQualifiedLead ==
    /\ DOMAIN prospects_pipeline =
           {id \in DOMAIN leads_database : leads_database[id].status = "qualified"}
    /\ Cardinality(DOMAIN prospects_pipeline) <= Cardinality(DOMAIN leads_database)

\* The Prospects that have a meeting and wait to attend it.
Booked ==
    {pid \in DOMAIN prospects_pipeline :
        /\ prospects_pipeline[pid].meeting_scheduled
        /\ prospects_pipeline[pid].next_action = "attend_meeting"}

\* C34: once a Prospect has meeting_scheduled = true and next_action =
\* attend_meeting, no later workflow sets them back.
C34_MeetingFlagStays ==
    [][\A pid \in Booked :
          /\ pid \in DOMAIN prospects_pipeline'
          /\ prospects_pipeline'[pid].meeting_scheduled
          /\ prospects_pipeline'[pid].next_action = "attend_meeting"]_vars

\* C36: every meeting of the store has an id different from the id of every
\* other meeting, also when two are created in the same batch or in the same
\* clock second.
C36_MeetingIdsDistinct ==
    \A i, j \in 1..Len(meetings_scheduled) :
        i # j => meetings_scheduled[i].id # meetings_scheduled[j].id

\* C37: every Prospect in the store has decision_maker = true and a
\* qualification_score of 8 or 10.
C37_ProspectsAreDecisionMakers ==
    \A pid \in DOMAIN prospects_pipeline :
        /\ prospects_pipeline[pid].decision_maker
        /\ prospects_pipeline[pid].qualification_score \in {8, 10}

\* A lead with score 7 has had two messages and is no Prospect, and a lead
\* with score 8 is one.
C37_Witness ==
    /\ \E x \in DOMAIN leads_database :
          /\ leads_database[x].score = 7
          /\ leads_database[x].contact_attempts >= 2
          /\ x \notin DOMAIN prospects_pipeline
    /\ \E y \in DOMAIN prospects_pipeline :
          prospects_pipeline[y].qualification_score = 8

\* C38: the top-level success flag of a full_pipeline envelope is true if and
\* only if each of its four stage results reports success.
C38_PipelineSuccessIffStages ==
    (/\ call.workflow_type = "full_pipeline"
     /\ call.raised = "none"
     /\ PipelineKeys \subseteq DOMAIN call.result) =>
        (call.result.success <=>
            \A key \in PipelineKeys : call.result[key].success)

\* The meetings of the store booked for the Prospect pid.
MeetingsOf(pid) ==
    {i \in 1..Len(meetings_scheduled) : meetings_scheduled[i].prospect_id = pid}

\* C35: when scheduling is only requested without a prospects list, with
\* nurture and discovery calls in between in any order, each Prospect has at
\* most one meeting; a default meeting_scheduling call that finds no Prospect
\* without a meeting (as the second of two in a row does) creates none.
C35_OneMeetingPerProspect ==
    /\ \A pid \in DOMAIN prospects_pipeline : Cardinality(MeetingsOf(pid)) <= 1
    /\ (/\ call.workflow_type = "meeting_scheduling"
        /\ \A pid \in DOMAIN Before.prospects_pipeline :
               Before.prospects_pipeline[pid].meeting_scheduled)
           => meetings_scheduled = Before.meetings_scheduled

====
